---------------------------- MODULE Spec2Model ----------------------------
(***************************************************************************)
(* A model of the JustYol product scraper (src/web-scraper): the           *)
(* orchestrator of scrape.py, its three backends (API, Selenium,           *)
(* Playwright), the record standardizer and the field cleaner.             *)
(*                                                                         *)
(* Python values are tagged tuples: <<"none">>, <<"str", chars>>,          *)
(* <<"int", n>>, <<"float", m, s>> (the number m / 10^s), <<"list", seq>>, *)
(* <<"dict", record>>.  A string is a sequence of atoms; an atom is one    *)
(* character, or an opaque run of characters that holds no digit and no    *)
(* whitespace (a URL prefix, a handle stem).  A raw product is a TLA+      *)
(* function from field names to values, so that 'k in product' is          *)
(* k \in DOMAIN product.                                                   *)
(***************************************************************************)
EXTENDS Integers, Sequences, FiniteSets, TLC

(***************************************************************************)
(* Bounds of the model.                                                    *)
(***************************************************************************)
MaxPages == 2       \* largest --pages value explored
MaxCards == 2       \* most named listing elements on one rendered page
MaxRecs == 4        \* most records in one network response body
MaxResp == 2        \* most captured product responses in the Selenium log
MaxDomPages == 3    \* largest --pages value of a run pinned to Playwright
MaxBatch == 2       \* most records in a mixed batch given to the standardizer
MaxLen == 4         \* longest string given to a field cleaner
MaxId == 3          \* largest row id of the products table

(***************************************************************************)
(* Python values                                                           *)
(***************************************************************************)
None == <<"none">>
S(chars) == <<"str", chars>>
I(n) == <<"int", n>>
L(seq) == <<"list", seq>>
D(rec) == <<"dict", rec>>

IsStr(v) == v[1] = "str"
IsDict(v) == v[1] = "dict"
IsList(v) == v[1] = "list"

\* Python truth value of v ('if not v', 'a and b').
Truthy(v) ==
    CASE v[1] = "none"  -> FALSE
      [] v[1] = "str"   -> v[2] # <<>>
      [] v[1] = "int"   -> v[2] # 0
      [] v[1] = "float" -> v[2] # 0
      [] v[1] = "list"  -> v[2] # <<>>
      [] v[1] = "dict"  -> DOMAIN v[2] # {}
      [] OTHER          -> TRUE

Digits == <<"0", "1", "2", "3", "4", "5", "6", "7", "8", "9">>
IsDigit(c) == \E d \in 1..10 : Digits[d] = c
DigitVal(c) == (CHOOSE d \in 1..10 : Digits[d] = c) - 1
IsSpace(c) == c \in {" ", "\t", "\n"}

RECURSIVE NatToChars(_)
NatToChars(n) ==
    IF n < 10 THEN <<Digits[n + 1]>>
    ELSE NatToChars(n \div 10) \o <<Digits[(n % 10) + 1]>>

RECURSIVE Pow10(_)
Pow10(s) == IF s = 0 THEN 1 ELSE 10 * Pow10(s - 1)

\* The digits of n, padded with zeros on the left to at least w characters.
RECURSIVE ZeroPad(_, _)
ZeroPad(n, w) ==
    IF Len(NatToChars(n)) >= w THEN NatToChars(n)
    ELSE <<"0">> \o ZeroPad(n, w - 1)

\* str() of the non-negative float m / 10^s, m having no trailing zero when
\* s > 0: str(152.0) = '152.0', str(99.99) = '99.99'.
FloatToChars(m, s) ==
    IF s = 0 THEN NatToChars(m) \o <<".", "0">>
    ELSE NatToChars(m \div Pow10(s)) \o <<".">> \o
         SubSeq(ZeroPad(m % Pow10(s), s), 1, s)

\* str(v) for the values a price or discount field holds.
Str(v) ==
    CASE v[1] = "str" -> v[2]
      [] v[1] = "int" -> IF v[2] < 0 THEN <<"-">> \o NatToChars(-v[2])
                         ELSE NatToChars(v[2])
      [] v[1] = "float" -> FloatToChars(v[2], v[3])
      [] v[1] = "none" -> <<"N", "o", "n", "e">>
      [] OTHER        -> <<"<repr>">>

(***************************************************************************)
(* Field Cleaner (data_processor/cleaner.py)                               *)
(***************************************************************************)
\* The TypeError re.sub raises for an argument that is no string.
TypeError == <<"raise", "TypeError">>

RECURSIVE DropSpaces(_)
DropSpaces(s) ==
    IF s # <<>> /\ IsSpace(Head(s)) THEN DropSpaces(Tail(s)) ELSE s

\* re.sub(r'\s+', ' ', s)
RECURSIVE CollapseWs(_)
CollapseWs(s) ==
    IF s = <<>> THEN <<>>
    ELSE IF IsSpace(Head(s)) THEN <<" ">> \o CollapseWs(DropSpaces(Tail(s)))
    ELSE <<Head(s)>> \o CollapseWs(Tail(s))

RECURSIVE DropTrailingSpaces(_)
DropTrailingSpaces(s) ==
    IF s # <<>> /\ IsSpace(s[Len(s)])
    THEN DropTrailingSpaces(SubSeq(s, 1, Len(s) - 1))
    ELSE s

\* str.strip()
Strip(s) == DropTrailingSpaces(DropSpaces(s))

\* Mutant: the collapsed name is not stripped.
clean_nameNoStrip(name) ==
    IF ~Truthy(name) THEN None
    ELSE IF ~IsStr(name) THEN TypeError
    ELSE S(CollapseWs(name[2]))

clean_name(name) ==
    IF ~Truthy(name) THEN None
    ELSE IF ~IsStr(name) THEN TypeError
    ELSE S(Strip(CollapseWs(name[2])))

\* Position of the first digit of s, 0 when s holds none.
FirstDigitPos(s) ==
    IF \E i \in 1..Len(s) : IsDigit(s[i])
    THEN CHOOSE i \in 1..Len(s) :
             IsDigit(s[i]) /\ \A j \in 1..(i - 1) : ~IsDigit(s[j])
    ELSE 0

\* Last position of the run of digits that starts at position i (greedy \d+).
DigitRunEnd(s, i) ==
    CHOOSE k \in i..Len(s) :
        /\ \A j \in i..k : IsDigit(s[j])
        /\ (k = Len(s) \/ ~IsDigit(s[k + 1]))

RECURSIVE CharsToNat(_)
CharsToNat(ds) ==
    IF ds = <<>> THEN 0
    ELSE 10 * CharsToNat(SubSeq(ds, 1, Len(ds) - 1)) + DigitVal(ds[Len(ds)])

\* The float m / 10^s, in lowest terms of the scale: 1.50 and 1.5 are equal.
RECURSIVE Float(_, _)
Float(m, s) ==
    IF s > 0 /\ m % 10 = 0 THEN Float(m \div 10, s - 1) ELSE <<"float", m, s>>

\* Mutant: the decimal part is not matched.
PriceTokenNoDecimal(s) ==
    LET p == FirstDigitPos(s) IN
    IF p = 0 THEN <<>> ELSE SubSeq(s, p, DigitRunEnd(s, p))

\* The text re.search(r'(\d+(?:\.\d+)?)', s) captures; <<>> when no match.
PriceToken(s) ==
    LET p == FirstDigitPos(s) IN
    IF p = 0 THEN <<>>
    ELSE LET e == DigitRunEnd(s, p) IN
         IF e + 2 <= Len(s) /\ s[e + 1] = "." /\ IsDigit(s[e + 2])
         THEN SubSeq(s, p, DigitRunEnd(s, e + 2))
         ELSE SubSeq(s, p, e)

\* float(token) for a token digits[.digits]
ParseFloat(tok) ==
    LET e == DigitRunEnd(tok, 1) IN
    IF e = Len(tok) THEN Float(CharsToNat(tok), 0)
    ELSE Float(CharsToNat(SubSeq(tok, 1, e) \o SubSeq(tok, e + 2, Len(tok))),
               Len(tok) - e - 1)

clean_price(price) ==
    IF ~Truthy(price) THEN None
    ELSE LET tok == PriceToken(Str(price)) IN
         IF tok = <<>> THEN None ELSE ParseFloat(tok)

\* Mutant: only the first digit is captured.
DiscountTokenOneDigit(s) ==
    LET p == FirstDigitPos(s) IN
    IF p = 0 THEN <<>> ELSE SubSeq(s, p, p)

\* group(1) of re.search(r'-?(\d+)%?', s); <<>> when no match.
DiscountToken(s) ==
    LET p == FirstDigitPos(s) IN
    IF p = 0 THEN <<>> ELSE SubSeq(s, p, DigitRunEnd(s, p))

clean_discount(discount) ==
    IF ~Truthy(discount) THEN None
    ELSE LET tok == DiscountToken(Str(discount)) IN
         IF tok = <<>> THEN None ELSE I(CharsToNat(tok))

\* dict.get(k)
Get(product, k) == IF k \in DOMAIN product THEN product[k] ELSE None

cleaned_product(product) ==
    [name           |-> clean_name(Get(product, "name")),
     brand          |-> Get(product, "brand"),
     price          |-> clean_price(Get(product, "price")),
     original_price |-> clean_price(Get(product, "original_price")),
     discount       |-> clean_discount(Get(product, "discount")),
     url            |-> Get(product, "url"),
     image_url      |-> Get(product, "image_url")]

clean_product_data(products) ==
    [i \in 1..Len(products) |-> cleaned_product(products[i])]

(***************************************************************************)
(* Record Standardizer (data_processor/standardizer.py)                    *)
(***************************************************************************)
UnknownProduct ==
    S(<<"U", "n", "k", "n", "o", "w", "n", " ",
        "P", "r", "o", "d", "u", "c", "t">>)

ProductUrlPrefix == "https://justyol.com/en/products/"

Has(product, k) == k \in DOMAIN product

\* 'variants' in product and product['variants'] and k in product['variants'][0]
FirstVariantHas(product, k) ==
    /\ Has(product, "variants")
    /\ Truthy(product["variants"])
    /\ IsList(product["variants"])
    /\ k \in DOMAIN product["variants"][2][1]

std_name(product) ==
    IF Has(product, "name") THEN product["name"]
    ELSE IF Has(product, "title") THEN product["title"]
    ELSE UnknownProduct

std_brand(product) ==
    IF Has(product, "brand") THEN product["brand"]
    ELSE IF Has(product, "vendor") THEN product["vendor"]
    ELSE None

\* Mutant: 'price_min' is preferred to 'price'.
std_pricePrefersMin(product) ==
    IF Has(product, "price_min") THEN S(Str(product["price_min"]))
    ELSE IF Has(product, "price") THEN product["price"]
    ELSE IF FirstVariantHas(product, "price")
         THEN product["variants"][2][1]["price"]
    ELSE None

std_price(product) ==
    IF Has(product, "price") THEN product["price"]
    ELSE IF Has(product, "price_min") THEN S(Str(product["price_min"]))
    ELSE IF FirstVariantHas(product, "price")
         THEN product["variants"][2][1]["price"]
    ELSE None

\* Mutant: without a source of its own the original price stays absent.
std_original_priceNoDefault(product) ==
    IF Has(product, "original_price") THEN product["original_price"]
    ELSE IF Has(product, "compare_at_price") THEN product["compare_at_price"]
    ELSE IF FirstVariantHas(product, "compare_at_price")
         THEN product["variants"][2][1]["compare_at_price"]
    ELSE None

std_original_price(product) ==
    IF Has(product, "original_price") THEN product["original_price"]
    ELSE IF Has(product, "compare_at_price") THEN product["compare_at_price"]
    ELSE IF FirstVariantHas(product, "compare_at_price")
         THEN product["variants"][2][1]["compare_at_price"]
    ELSE std_price(product)

std_discount(product) ==
    IF Has(product, "discount") THEN product["discount"] ELSE None

std_url(product) ==
    IF Has(product, "url") THEN product["url"]
    ELSE IF Has(product, "handle")
         THEN S(<<ProductUrlPrefix>> \o Str(product["handle"]))
    ELSE None

NoField == [k \in {} |-> None]

\* The image_url entry of std_product: a one-field function, or no field at all
\* when 'image' is neither a string nor a dict with 'src'.
std_image_url(product) ==
    IF Has(product, "image_url") THEN "image_url" :> product["image_url"]
    ELSE IF Has(product, "image")
         THEN IF IsStr(product["image"]) THEN "image_url" :> product["image"]
              ELSE IF IsDict(product["image"]) /\ "src" \in DOMAIN product["image"][2]
                   THEN "image_url" :> product["image"][2]["src"]
              ELSE NoField
    ELSE IF Has(product, "featured_image")
         THEN "image_url" :> product["featured_image"]
    ELSE IF Has(product, "images") /\ Truthy(product["images"])
         THEN IF IsList(product["images"])
              THEN LET img == product["images"][2][1] IN
                   IF IsDict(img) /\ "src" \in DOMAIN img[2]
                   THEN "image_url" :> img[2]["src"]
                   ELSE "image_url" :> S(Str(img))
              ELSE "image_url" :> S(Str(product["images"]))
    ELSE "image_url" :> None

std_product(product) ==
    [name           |-> std_name(product),
     brand          |-> std_brand(product),
     price          |-> std_price(product),
     original_price |-> std_original_price(product),
     discount       |-> std_discount(product),
     url            |-> std_url(product)] @@ std_image_url(product)

\* Mutant: the sentinel name is kept.
KeepStdAnyName(std) == Truthy(std["name"])

\* Only products with a name that is not the sentinel are appended.
KeepStd(std) == Truthy(std["name"]) /\ std["name"] # UnknownProduct

RECURSIVE standardize_products(_)
standardize_products(products) ==
    IF products = <<>> THEN <<>>
    ELSE LET std == std_product(Head(products))
             rest == standardize_products(Tail(products))
         IN IF KeepStd(std) THEN <<std>> \o rest ELSE rest

(***************************************************************************)
(* Raw records, by the backend that produces them.  The number of records  *)
(* and their origin vary; the field values are fixed samples.              *)
(***************************************************************************)
SamplePrice == S(<<"1", "5", "2", " ", "d", "h">>)
SampleAmount == S(<<"1", "5", "2", ".", "0", " ", "M", "A", "D">>)

\* One element of the "products" array of a REST listing body (storefront
\* shape); an untitled element has neither 'name' nor 'title'.
NetRecord(origin, k, titled) ==
    LET common == [handle   |-> S(origin \o <<Digits[k + 1]>>),
                   vendor   |-> S(<<"V">>),
                   variants |-> L(<<[price |-> SamplePrice,
                                     compare_at_price |-> None]>>)]
    IN IF titled
       THEN common @@ [title |-> S(<<"T">> \o origin \o <<Digits[k + 1]>>)]
       ELSE common

NetBody(origin, n, titled) == [k \in 1..n |-> NetRecord(origin, k, titled)]

\* api_scraper.py:206-216: the record built from one GraphQL node.
GraphqlRecord(k) ==
    [id    |-> S(<<"gid", Digits[k + 1]>>),
     name  |-> S(<<"G", Digits[k + 1]>>),
     url   |-> S(<<ProductUrlPrefix, "g", Digits[k + 1]>>),
     price |-> SampleAmount,
     image |-> S(<<"N", "/", "A">>)]

GraphqlBody(n) == [k \in 1..n |-> GraphqlRecord(k)]

\* selenium_scraper.py:127-196: the record of one named card of page pg.
SeleniumCard(pg, k) ==
    [name           |-> S(<<"S", Digits[pg + 1], "-", Digits[k + 1]>>),
     price          |-> SamplePrice,
     original_price |-> SamplePrice]

SeleniumCards(pg, n) == [k \in 1..n |-> SeleniumCard(pg, k)]

\* justyol.py:138-146: the record of one named listing element of page pg.
PlaywrightCard(pg, k) ==
    [name           |-> S(<<"P", Digits[pg + 1], "-", Digits[k + 1]>>),
     brand          |-> None,
     price          |-> SamplePrice,
     original_price |-> SamplePrice,
     discount       |-> None,
     url            |-> None,
     image_url      |-> None]

PlaywrightCards(pg, n) == [k \in 1..n |-> PlaywrightCard(pg, k)]

(***************************************************************************)
(* The environment: what a network call or a browser step can answer.      *)
(***************************************************************************)
FailKinds == {"timeout", "refused", "non200", "notjson", "nokey"}

\* The answer to one GET of a listing endpoint.
Responses ==
    [kind : FailKinds] \cup [kind : {"products"}, n : 0..MaxRecs, titled : BOOLEAN]

\* The answer to the GraphQL POST: an error raised inside the try, a body
\* without data.collection.products, or n edges.
GraphqlResponses ==
    [kind : {"error", "nodata"}] \cup [kind : {"edges"}, n : 0..MaxRecs]

\* One captured response that passed the URL filter: its body cannot be read
\* or parsed, parses without a "products" key, or holds n products.
Captured ==
    [kind : {"unreadable", "nokey"}]
        \cup [kind : {"products"}, n : 0..MaxRecs, titled : BOOLEAN]

RECURSIVE SeqsUpTo(_, _)
SeqsUpTo(set, n) ==
    IF n = 0 THEN {<<>>}
    ELSE LET shorter == SeqsUpTo(set, n - 1) IN
         shorter \cup {Append(s, x) : s \in {q \in shorter : Len(q) = n - 1}, x \in set}

\* One page of the visible-DOM fallback of the Selenium backend.
SeleniumPages ==
    [kind : {"error", "notfound", "nocards"}] \cup [kind : {"cards"}, n : 0..MaxCards]

\* One call of _extract_products: the listing-container wait times out, or
\* n of the listing elements have a name.
Extractions == [kind : {"timeout"}] \cup [kind : {"cards"}, n : 0..MaxCards]

\* One call of _go_to_next_page followed by wait_for_load_state: the state of
\* the page's next control, whether it shows a load-more button, whether
\* looking a control up or clicking it raises, and whether the load wait that
\* follows a click times out.
Navigations ==
    [next : {"absent", "enabled", "disabled"}, loadMore : BOOLEAN,
     step : {"ok", "error"}, load : {"ok", "timeout"}]

(***************************************************************************)
(* Program constants                                                       *)
(***************************************************************************)
Threshold == 3          \* scrape.py: len(x_products) > 3
ApiThreshold == 3       \* api_scraper.py: len(products) > 3
NumEndpoints == 3       \* api_scraper.py: three candidate URLs per approach

Methods == {"auto", "api", "selenium", "playwright"}
Backends == {"api", "selenium", "playwright"}

(***************************************************************************)
(* State                                                                   *)
(***************************************************************************)
VARIABLES
    method,              \* args.method
    pages,               \* args.pages
    urlHasCollection,    \* whether args.url matches collections/<handle>
    pc,                  \* position of the run
    products,            \* main: products
    api_products,        \* main: api_products
    selenium_products,   \* main: selenium_products
    playwright_products, \* main: playwright_products
    accepted,            \* the backend whose result was assigned to products
    stdInput,            \* argument of standardize_products, None if not called
    exported,            \* cleaned products handed to the writers, None if none
    outcome,             \* "Running", "Exported", "AllFailed" or "Crashed"
    raised,              \* the exception that left main(), "none" if none
    calls,               \* the backends invoked, in order
    active,              \* the backends whose invocation is in progress
    returned,            \* the backends whose scrape_products returned
    log,                 \* the messages logged, in order
    apiEp,               \* index of the endpoint probed next
    apiSkipped,          \* how each endpoint skipped by the current probe failed
    apiData,             \* api scrape_products: products (None or a list)
    selDriver,           \* Selenium session: "none", "open", "closed"
    selPage,             \* page of the visible-DOM fallback loop
    selSeen,             \* what each page loaded by the fallback loop showed
    all_products,        \* selenium_scraper: all_products
    selResult,           \* value scrape_products is returning
    selCaptured,         \* len(api_responses): responses that passed the URL filter
    selRead,             \* what the bodies read so far, in capture order, were
    pwDriver,            \* Playwright driver process: "none", "running", "stopped"
    pwBrowser,           \* self.browser: "none", "open", "closed"
    pwContext,           \* self.context is set
    pwI,                 \* justyol.scrape_products: i
    pwProducts,          \* justyol.scrape_products: products
    extractions,         \* calls of _extract_products
    navigations,         \* clicks of a pagination control
    navSeen,             \* the next control each call of _go_to_next_page met
    lastNav,             \* the controls the last call of _go_to_next_page met
    lastClick,           \* the control the last call of _go_to_next_page clicked
    pwError,             \* a browser step of the Playwright backend raised
    fnName,              \* the data_processor function called on its own
    fnArg,               \* its argument
    fnResult             \* the value it returned, or the error it raised

callVars == <<fnName, fnArg, fnResult>>
inputVars == <<method, pages, urlHasCollection>>
mainVars == <<products, api_products, selenium_products, playwright_products,
              accepted, stdInput, exported, outcome, raised>>
traceVars == <<calls, active, returned>>
apiVars == <<apiEp, apiSkipped, apiData>>
selSniff == <<selCaptured, selRead>>
selVars == <<selDriver, selPage, selSeen, all_products, selResult, selSniff>>
pwSession == <<pwDriver, pwBrowser, pwContext>>
pwLoop == <<pwI, pwProducts, extractions, navigations, navSeen, lastNav,
           lastClick>>
vars == <<callVars, inputVars, pc, mainVars, traceVars, log, apiVars, selVars,
          pwSession, pwLoop, pwError>>

\* The state at the entry of main(), whatever the arguments are.
Fresh ==
    /\ pc = "main_api"
    /\ products = <<>>
    /\ api_products = <<>>
    /\ selenium_products = <<>>
    /\ playwright_products = <<>>
    /\ accepted = "none"
    /\ stdInput = None
    /\ exported = None
    /\ outcome = "Running"
    /\ raised = "none"
    /\ calls = <<>>
    /\ active = {}
    /\ returned = {}
    /\ log = <<>>
    /\ apiEp = 1
    /\ apiSkipped = <<>>
    /\ apiData = None
    /\ selDriver = "none"
    /\ selPage = 1
    /\ selSeen = <<>>
    /\ all_products = <<>>
    /\ selResult = <<>>
    /\ selCaptured = 0
    /\ selRead = <<>>
    /\ pwDriver = "none"
    /\ pwBrowser = "none"
    /\ pwContext = FALSE
    /\ pwI = 0
    /\ pwProducts = <<>>
    /\ extractions = 0
    /\ navigations = 0
    /\ navSeen = <<>>
    /\ lastNav = None
    /\ lastClick = "none"
    /\ pwError = FALSE

\* No data_processor function is called outside main().
NoCall ==
    /\ fnName = "none"
    /\ fnArg = None
    /\ fnResult = None

Init ==
    /\ method \in Methods
    /\ pages \in 0..MaxPages
    /\ urlHasCollection \in BOOLEAN
    /\ Fresh
    /\ NoCall

\* A run pinned to the Playwright backend (--method playwright), with a page
\* budget of up to MaxDomPages.
InitDom ==
    /\ method = "playwright"
    /\ pages \in 0..MaxDomPages
    /\ urlHasCollection \in BOOLEAN
    /\ Fresh
    /\ NoCall

(***************************************************************************)
(* API backend (scraper/api_scraper.py)                                    *)
(***************************************************************************)
\* Mutant: any non-empty result of an approach is returned.
ApiAcceptsAnyNonEmpty(result) == result # <<>>

\* 'products and len(products) > 3'; None is passed as the empty sequence.
ApiAccepts(result) == result # <<>> /\ Len(result) > ApiThreshold

\* The records of a value an approach returned: None counts as none.
Rows(value) == IF value = None THEN <<>> ELSE value[2]

\* scrape_products returns result to main.
ApiReturn(result) ==
    /\ api_products' = result
    /\ apiData' = None
    /\ pc' = "main_api_check"
    /\ active' = active \ {"api"}
    /\ returned' = returned \cup {"api"}
    /\ UNCHANGED calls

\* An approach returned result: scrape_products returns it when it passes the
\* threshold and goes on to the next approach otherwise.
ApproachDone(value, nextPc) ==
    /\ apiSkipped' = <<>>
    /\ IF ApiAccepts(Rows(value))
       THEN ApiReturn(Rows(value)) /\ UNCHANGED apiEp
       ELSE /\ pc' = nextPc
            /\ apiEp' = 1
            /\ apiData' = value
            /\ UNCHANGED <<api_products, traceVars>>

\* Mutant: a body whose "products" list is empty does not count.
QualifiesNonEmpty(r) == r.kind = "products" /\ r.n > 0

\* api_scraper.py:83-87: status 200, a JSON body, 'products' in data.
Qualifies(r) == r.kind = "products"

\* One step of _get_api_data / _try_inventory_api: without a collection handle
\* in the URL the approach returns None; otherwise one GET of the candidate
\* endpoint apiEp, in list order.
ApiProbe(approach, here, nextPc) ==
    /\ pc = here
    /\ IF ~urlHasCollection
       THEN ApproachDone(None, nextPc)
       ELSE \E r \in Responses :
              IF Qualifies(r)
              THEN ApproachDone(
                       L(NetBody(<<approach, Digits[apiEp + 1], "-">>, r.n,
                                 r.titled)),
                       nextPc)
              ELSE IF apiEp < NumEndpoints
                   THEN /\ apiEp' = apiEp + 1
                        /\ apiSkipped' = Append(apiSkipped, r.kind)
                        /\ UNCHANGED <<pc, api_products, traceVars, apiData>>
                   ELSE ApproachDone(None, nextPc)
    /\ UNCHANGED <<callVars, inputVars, products, selenium_products, playwright_products,
                   accepted, stdInput, exported, outcome, raised, log, selVars,
                   pwSession, pwLoop, pwError>>

GetApiData == ApiProbe("direct", "api_direct", "api_inventory")

TryInventoryApi == ApiProbe("inventory", "api_inventory", "api_graphql")

\* _try_graphql_approach and the end of scrape_products.
TryGraphqlApproach ==
    /\ pc = "api_graphql"
    /\ \E r \in IF urlHasCollection THEN GraphqlResponses ELSE {[kind |-> "nodata"]} :
         LET result == IF r.kind = "edges" THEN GraphqlBody(r.n) ELSE <<>> IN
         /\ IF ApiAccepts(result)
            THEN /\ ApiReturn(result)
                 /\ log' = log
            ELSE /\ ApiReturn(<<>>)
                 /\ log' = IF r.kind = "error"
                           THEN log \o <<"ERROR GraphQL approach failed",
                                         "WARNING All API approaches failed">>
                           ELSE Append(log, "WARNING All API approaches failed")
    /\ UNCHANGED <<callVars, inputVars, products, selenium_products, playwright_products,
                   accepted, stdInput, exported, outcome, raised, apiEp,
                   apiSkipped, selVars, pwSession, pwLoop, pwError>>

(***************************************************************************)
(* Orchestrator, API section (scrape.py:46-57)                             *)
(***************************************************************************)
\* Mutant: the threshold compared with >= instead of >.
AcceptsOffByOne(result) == result # <<>> /\ Len(result) >= Threshold

\* Mutant: any non-empty result accepted.
AcceptsAnyNonEmpty(result) == result # <<>>

\* 'x_products and len(x_products) > 3'
Accepts(result) == result # <<>> /\ Len(result) > Threshold

RunApi == method = "auto" \/ method = "api"

ApiGate ==
    /\ pc = "main_api"
    /\ IF RunApi
       THEN /\ log' = Append(log, "INFO Attempting API-based scraping")
            /\ calls' = Append(calls, "api")
            /\ active' = active \cup {"api"}
            /\ pc' = "api_direct"
       ELSE /\ pc' = "main_selenium"
            /\ UNCHANGED <<log, calls, active>>
    /\ UNCHANGED <<callVars, inputVars, mainVars, returned, apiVars, selVars, pwSession,
                   pwLoop, pwError>>

ApiCheck ==
    /\ pc = "main_api_check"
    /\ IF Accepts(api_products)
       THEN /\ products' = api_products
            /\ accepted' = "api"
            /\ log' = Append(log, "INFO Successfully retrieved products via API")
       ELSE /\ log' = Append(log, IF method = "api"
                                  THEN "WARNING API-based scraping failed"
                                  ELSE "INFO API-based scraping failed, trying Selenium")
            /\ UNCHANGED <<products, accepted>>
    /\ pc' = "main_selenium"
    /\ UNCHANGED <<callVars, inputVars, api_products, selenium_products, playwright_products,
                   stdInput, exported, outcome, raised, traceVars, apiVars, selVars,
                   pwSession, pwLoop, pwError>>

(***************************************************************************)
(* Selenium backend (scraper/selenium_scraper.py)                          *)
(***************************************************************************)
\* Mutant: 'and not products' dropped from the condition.
RunSeleniumIgnoresProducts == method = "auto" \/ method = "selenium"

RunSelenium == (method = "auto" /\ products = <<>>) \/ method = "selenium"

\* scrape.py:59-62
SeleniumGate ==
    /\ pc = "main_selenium"
    /\ IF RunSelenium
       THEN /\ log' = Append(log, "INFO Attempting Selenium-based scraping")
            /\ calls' = Append(calls, "selenium")
            /\ active' = active \cup {"selenium"}
            /\ pc' = "sel_launch"
       ELSE /\ pc' = "main_playwright"
            /\ UNCHANGED <<log, calls, active>>
    /\ UNCHANGED <<callVars, inputVars, mainVars, returned, apiVars, selVars, pwSession,
                   pwLoop, pwError>>

\* selenium_scraper.py:58: webdriver.Chrome(...) stands before the try block,
\* and main() calls scrape_products outside any try: a launch that fails
\* leaves scrape_products and main() as an exception.
SeleniumLaunch ==
    /\ pc = "sel_launch"
    /\ \/ /\ selDriver' = "open"
          /\ pc' = "sel_sniff"
          /\ UNCHANGED <<active, outcome, raised>>
       \/ /\ raised' = "WebDriverException"
          /\ outcome' = "Crashed"
          /\ active' = active \ {"selenium"}
          /\ pc' = "done"
          /\ UNCHANGED selDriver
    /\ UNCHANGED <<callVars, inputVars, products, api_products, selenium_products,
                   playwright_products, accepted, stdInput, exported, calls,
                   returned, log, apiVars, selPage, selSeen, all_products,
                   selResult, selSniff, pwSession, pwLoop, pwError>>

\* selenium_scraper.py:60-84: load the page, scroll, read the performance log
\* and collect the responses whose URL passes the filter.
SeleniumSniff ==
    /\ pc = "sel_sniff"
    /\ \/ \* driver.get, execute_script or get_log raised: line 206-208
          /\ log' = Append(log, "ERROR Error monitoring network")
          /\ selResult' = <<>>
          /\ pc' = "sel_finally"
          /\ UNCHANGED selSniff
       \/ /\ selCaptured' \in 0..MaxResp
          /\ selRead' = <<>>
          /\ pc' = "sel_bodies"
          /\ UNCHANGED <<log, selResult>>
    /\ UNCHANGED <<callVars, inputVars, mainVars, traceVars, apiVars, selDriver,
                   selPage, selSeen, all_products, pwSession, pwLoop, pwError>>

\* Mutant: a body whose "products" list is empty does not count.
BodyQualifiesNonEmpty(c) == c.kind = "products" /\ c.n > 0

\* selenium_scraper.py:89-91: the body is read, parses and has "products".
BodyQualifies(c) == c.kind = "products"

\* selenium_scraper.py:87-103: one turn of the loop over api_responses, in
\* capture order, or its end, where the visible-DOM fallback begins.
SeleniumBodies ==
    /\ pc = "sel_bodies"
    /\ IF Len(selRead) = selCaptured
       THEN /\ log' = Append(log, "INFO falling back to visible products")
            /\ selPage' = 1
            /\ all_products' = <<>>
            /\ pc' = "sel_page"
            /\ selCaptured' = 0
            /\ selRead' = <<>>
            /\ UNCHANGED selResult
       ELSE \E c \in Captured :
              IF BodyQualifies(c)
              THEN /\ selResult' = NetBody(<<"sniff", Digits[Len(selRead) + 2], "-">>,
                                           c.n, c.titled)
                   /\ pc' = "sel_finally"
                   /\ selCaptured' = 0
                   /\ selRead' = <<>>
                   /\ UNCHANGED <<log, selPage, all_products>>
              ELSE /\ selRead' = Append(selRead, c.kind)
                   /\ UNCHANGED <<log, pc, selPage, all_products, selResult,
                                  selCaptured>>
    /\ UNCHANGED <<callVars, inputVars, mainVars, traceVars, apiVars, selDriver,
                   selSeen, pwSession, pwLoop, pwError>>

\* Mutant: the loop runs one page past the budget.
InBudgetOffByOne == selPage <= pages + 1

\* selenium_scraper.py:103: 'for page in range(1, pages + 1)'
InBudget == selPage <= pages

\* selenium_scraper.py:103-204: one turn of the loop over ?page=1..pages.
SeleniumPage ==
    /\ pc = "sel_page"
    /\ IF ~InBudget
       THEN /\ selResult' = all_products
            /\ pc' = "sel_finally"
            /\ UNCHANGED <<log, selPage, selSeen, all_products>>
       ELSE \E pg \in SeleniumPages :
              /\ selSeen' = Append(selSeen, pg.kind)
              /\ IF pg.kind = "cards"
                 THEN /\ all_products' = all_products \o SeleniumCards(selPage, pg.n)
                      /\ selPage' = selPage + 1
                      /\ UNCHANGED <<log, pc, selResult>>
                 ELSE /\ selResult' = all_products
                      /\ pc' = "sel_finally"
                      /\ log' = IF pg.kind = "error"
                                THEN Append(log, "WARNING Error processing page")
                                ELSE log
                      /\ UNCHANGED <<selPage, all_products>>
    /\ UNCHANGED <<callVars, inputVars, mainVars, traceVars, apiVars, selDriver,
                   selSniff, pwSession, pwLoop, pwError>>

\* Mutant: the finally block does not quit the driver.
SeleniumQuitSkipped == "open"

\* selenium_scraper.py:210: driver.quit()
SeleniumQuit == "closed"

\* selenium_scraper.py:209-210 and the return to main.
SeleniumFinally ==
    /\ pc = "sel_finally"
    /\ selDriver' = SeleniumQuit
    /\ selenium_products' = selResult
    /\ active' = active \ {"selenium"}
    /\ returned' = returned \cup {"selenium"}
    /\ pc' = "main_selenium_check"
    /\ selSeen' = <<>>
    /\ UNCHANGED <<callVars, inputVars, products, api_products, playwright_products,
                   accepted, stdInput, exported, outcome, raised, calls, log,
                   apiVars, selPage, all_products, selResult, selSniff,
                   pwSession, pwLoop, pwError>>

\* scrape.py:64-70
SeleniumCheck ==
    /\ pc = "main_selenium_check"
    /\ IF Accepts(selenium_products)
       THEN /\ products' = selenium_products
            /\ accepted' = "selenium"
            /\ log' = Append(log, "INFO Successfully retrieved products via Selenium")
       ELSE /\ log' = Append(log, IF method = "selenium"
                                  THEN "WARNING Selenium-based scraping failed"
                                  ELSE "INFO Selenium-based scraping failed, trying Playwright")
            /\ UNCHANGED <<products, accepted>>
    /\ pc' = "main_playwright"
    /\ UNCHANGED <<callVars, inputVars, api_products, selenium_products, playwright_products,
                   stdInput, exported, outcome, raised, traceVars, apiVars, selVars,
                   pwSession, pwLoop, pwError>>

(***************************************************************************)
(* Playwright backend (scraper/justyol.py) inside scrape.py:72-92          *)
(***************************************************************************)
\* Mutant: 'args.method == "auto" and' dropped from the condition.
RunPlaywrightIgnoresMode == products = <<>> \/ method = "playwright"

\* Mutant: 'and not products' dropped from the condition.
RunPlaywrightIgnoresProducts == method = "auto" \/ method = "playwright"

RunPlaywright == (method = "auto" /\ products = <<>>) \/ method = "playwright"

\* scrape.py:72-74
PlaywrightGate ==
    /\ pc = "main_playwright"
    /\ IF RunPlaywright
       THEN /\ log' = Append(log, "INFO Attempting Playwright-based scraping")
            /\ calls' = Append(calls, "playwright")
            /\ active' = active \cup {"playwright"}
            /\ pc' = "pw_start"
       ELSE /\ pc' = "main_final"
            /\ UNCHANGED <<log, calls, active>>
    /\ UNCHANGED <<callVars, inputVars, mainVars, returned, apiVars, selVars, pwSession,
                   pwLoop, pwError>>

\* scrape.py:88-89: an exception of start() or scrape_products is logged and
\* control passes to the finally block.
PlaywrightExcept ==
    /\ log' = Append(log, "ERROR An error occurred during Playwright scraping")
    /\ pwError' = TRUE
    /\ pc' = "pw_finally"

\* justyol.py:31: async_playwright().start()
StartDriver ==
    /\ pc = "pw_start"
    /\ \/ /\ pwDriver' = "running"
          /\ pc' = "pw_launch"
          /\ UNCHANGED <<log, pwError>>
       \/ /\ PlaywrightExcept
          /\ UNCHANGED pwDriver
    /\ UNCHANGED <<callVars, inputVars, mainVars, traceVars, apiVars, selVars, pwBrowser,
                   pwContext, pwLoop>>

\* justyol.py:32: chromium.launch()
LaunchBrowser ==
    /\ pc = "pw_launch"
    /\ \/ /\ pwBrowser' = "open"
          /\ pc' = "pw_context"
          /\ UNCHANGED <<log, pwError>>
       \/ /\ PlaywrightExcept
          /\ UNCHANGED pwBrowser
    /\ UNCHANGED <<callVars, inputVars, mainVars, traceVars, apiVars, selVars, pwDriver,
                   pwContext, pwLoop>>

\* justyol.py:33-35: browser.new_context()
NewContext ==
    /\ pc = "pw_context"
    /\ \/ /\ pwContext' = TRUE
          /\ pc' = "pw_open"
          /\ UNCHANGED <<log, pwError>>
       \/ /\ PlaywrightExcept
          /\ UNCHANGED pwContext
    /\ UNCHANGED <<callVars, inputVars, mainVars, traceVars, apiVars, selVars, pwDriver,
                   pwBrowser, pwLoop>>

\* justyol.scrape_products returns result to main.
PlaywrightReturn(result) ==
    /\ playwright_products' = result
    /\ returned' = returned \cup {"playwright"}
    /\ pc' = "main_playwright_check"

\* justyol.py:55-60: new_page() and goto(url); range(pages) is empty for
\* pages = 0.
OpenPage ==
    /\ pc = "pw_open"
    /\ \/ /\ IF pages > 0
             THEN /\ pc' = "pw_extract"
                  /\ UNCHANGED <<playwright_products, returned>>
             ELSE PlaywrightReturn(<<>>)
          /\ pwI' = 0
          /\ pwProducts' = <<>>
          /\ UNCHANGED <<log, pwError>>
       \/ /\ PlaywrightExcept
          /\ UNCHANGED <<playwright_products, returned, pwI, pwProducts>>
    /\ UNCHANGED <<callVars, inputVars, products, api_products, selenium_products, accepted,
                   stdInput, exported, outcome, raised, calls, active, apiVars,
                   selVars, pwSession, extractions, navigations, navSeen,
                   lastNav, lastClick>>

\* The number of records scrape_products holds from the page-th page.
PageYield(page) ==
    Cardinality({k \in 1..Len(pwProducts) :
                    pwProducts[k].name[2][2] = Digits[page + 1]})

\* Mutant: the traversal ends after a page that yielded no record.
MorePagesStopsAfterEmpty(i) == i < pages - 1 /\ (i >= 1 => PageYield(i) > 0)

\* Mutant: the last page also navigates on.
MorePagesOffByOne(i) == i < pages

\* justyol.py:71: 'if i < pages - 1'
MorePages(i) == i < pages - 1

\* justyol.py:63-71 with _extract_products (85-152): the wait for the listing
\* container is not guarded, so its timeout leaves scrape_products.
ExtractPage ==
    /\ pc = "pw_extract"
    /\ extractions' = extractions + 1
    /\ \E x \in Extractions :
         IF x.kind = "timeout"
         THEN /\ PlaywrightExcept
              /\ UNCHANGED <<playwright_products, returned, pwProducts>>
         ELSE LET collected == pwProducts \o PlaywrightCards(pwI + 1, x.n) IN
              /\ pwProducts' = collected
              /\ IF MorePages(pwI)
                 THEN /\ pc' = "pw_next"
                      /\ UNCHANGED <<playwright_products, returned>>
                 ELSE PlaywrightReturn(collected)
              /\ UNCHANGED <<log, pwError>>
    /\ UNCHANGED <<callVars, inputVars, products, api_products, selenium_products, accepted,
                   stdInput, exported, outcome, raised, calls, active, apiVars,
                   selVars, pwSession, pwI, navigations, navSeen, lastNav,
                   lastClick>>

\* Mutant: a next control is clicked whether or not it is marked disabled.
HasNextIgnoresDisabled(nav) ==
    IF nav.step = "error" THEN FALSE
    ELSE IF nav.next # "absent" THEN TRUE
    ELSE nav.loadMore

\* Mutant: an error of a lookup or click is not taken as 'no next page'.
HasNextIgnoresError(nav) ==
    IF nav.next # "absent" THEN nav.next = "enabled" ELSE nav.loadMore

\* justyol.py:154-187 _go_to_next_page: an exception inside it yields False.
HasNext(nav) ==
    IF nav.step = "error" THEN FALSE
    ELSE IF nav.next # "absent" THEN nav.next = "enabled"
    ELSE nav.loadMore

\* justyol.py:72-81: go to the next page, wait for it to load, sleep.
NextPage ==
    /\ pc = "pw_next"
    /\ \E nav \in Navigations :
         /\ navSeen' = Append(navSeen, nav.next)
         /\ lastNav' = [next |-> nav.next, loadMore |-> nav.loadMore,
                        step |-> nav.step]
         /\ lastClick' = IF ~HasNext(nav) THEN "none"
                         ELSE IF nav.next = "enabled" THEN "next"
                         ELSE "load_more"
         /\ IF ~HasNext(nav)
            THEN /\ PlaywrightReturn(pwProducts)
                 /\ log' = IF nav.step = "error"
                           THEN log \o <<"WARNING Error navigating to next page",
                                         "INFO No more pages available">>
                           ELSE Append(log, "INFO No more pages available")
                 /\ pwError' = (pwError \/ nav.step = "error")
                 /\ UNCHANGED <<pwI, navigations>>
            ELSE /\ navigations' = navigations + 1
                 /\ IF nav.load = "timeout"
                    THEN /\ PlaywrightExcept
                         /\ UNCHANGED <<playwright_products, returned, pwI>>
                    ELSE /\ pwI' = pwI + 1
                         /\ pc' = "pw_extract"
                         /\ UNCHANGED <<playwright_products, returned, log, pwError>>
    /\ UNCHANGED <<callVars, inputVars, products, api_products, selenium_products, accepted,
                   stdInput, exported, outcome, raised, calls, active, apiVars,
                   selVars, pwSession, pwProducts, extractions>>

\* scrape.py:83-87
PlaywrightCheck ==
    /\ pc = "main_playwright_check"
    /\ IF Accepts(playwright_products)
       THEN /\ products' = playwright_products
            /\ accepted' = "playwright"
            /\ log' = Append(log, "INFO Successfully retrieved products via Playwright")
       ELSE /\ log' = Append(log, "WARNING Playwright-based scraping failed")
            /\ UNCHANGED <<products, accepted>>
    /\ pc' = "pw_finally"
    /\ UNCHANGED <<callVars, inputVars, api_products, selenium_products, playwright_products,
                   stdInput, exported, outcome, raised, traceVars, apiVars, selVars,
                   pwSession, pwLoop, pwError>>

\* justyol.py:39: 'if self.browser:' guards both browser.close() and
\* playwright.stop().
StopCloses == pwBrowser # "none"

\* scrape.py:90-92 with JustYolScraper.stop (justyol.py:37-42)
PlaywrightFinally ==
    /\ pc = "pw_finally"
    /\ IF StopCloses
       THEN /\ pwBrowser' = "closed"
            /\ pwDriver' = "stopped"
            /\ log' = Append(log, "INFO Closing browser")
       ELSE UNCHANGED <<pwBrowser, pwDriver, log>>
    /\ active' = active \ {"playwright"}
    /\ pc' = "main_final"
    /\ UNCHANGED <<callVars, inputVars, mainVars, calls, returned, apiVars, selVars,
                   pwContext, pwLoop, pwError>>

(***************************************************************************)
(* Orchestrator, end of main (scrape.py:94-121)                            *)
(***************************************************************************)
\* Mutant: the export goes on without any product.
NoProductsIgnored == FALSE

\* scrape.py:94: 'if not products'
NoProducts == products = <<>>

Final ==
    /\ pc = "main_final"
    /\ IF NoProducts
       THEN /\ log' = Append(log, "ERROR All scraping methods failed")
            /\ outcome' = "AllFailed"
            /\ UNCHANGED <<stdInput, exported>>
       ELSE /\ stdInput' = L(products)
            /\ exported' = L(clean_product_data(standardize_products(products)))
            /\ outcome' = "Exported"
            /\ log' = Append(log, "INFO Scraping completed successfully")
    /\ pc' = "done"
    /\ UNCHANGED <<callVars, inputVars, products, api_products, selenium_products,
                   playwright_products, accepted, raised, traceVars, apiVars,
                   selVars, pwSession, pwLoop, pwError>>

Next ==
    \/ ApiGate
    \/ GetApiData
    \/ TryInventoryApi
    \/ TryGraphqlApproach
    \/ ApiCheck
    \/ SeleniumGate
    \/ SeleniumLaunch
    \/ SeleniumSniff
    \/ SeleniumBodies
    \/ SeleniumPage
    \/ SeleniumFinally
    \/ SeleniumCheck
    \/ PlaywrightGate
    \/ StartDriver
    \/ LaunchBrowser
    \/ NewContext
    \/ OpenPage
    \/ ExtractPage
    \/ NextPage
    \/ PlaywrightCheck
    \/ PlaywrightFinally
    \/ Final

Spec == Init /\ [][Next]_vars

\* The steps of main() before its last one.
Running ==
    \/ ApiGate \/ GetApiData \/ TryInventoryApi \/ TryGraphqlApproach
    \/ ApiCheck
    \/ SeleniumGate \/ SeleniumLaunch \/ SeleniumSniff \/ SeleniumBodies
    \/ SeleniumPage \/ SeleniumFinally \/ SeleniumCheck
    \/ PlaywrightGate \/ StartDriver \/ LaunchBrowser \/ NewContext
    \/ OpenPage \/ ExtractPage \/ NextPage \/ PlaywrightCheck
    \/ PlaywrightFinally

\* The last step of main(): the step Final takes, told by the position alone.
Finish == pc = "main_final" /\ pc' = "done"

\* main() is one coroutine run to its end by asyncio.run: while a step is
\* possible, and every network call and browser action returns or fails, the
\* next step is taken.
SpecLive == Init /\ [][Next]_vars /\ WF_vars(Running) /\ WF_pc(Finish)

\* The steps of a run pinned to the Playwright backend.
NextDom ==
    \/ ApiGate
    \/ SeleniumGate
    \/ PlaywrightGate
    \/ StartDriver
    \/ LaunchBrowser
    \/ NewContext
    \/ OpenPage
    \/ ExtractPage
    \/ NextPage
    \/ PlaywrightCheck
    \/ PlaywrightFinally
    \/ Final

SpecDom == InitDom /\ [][NextDom]_vars

(***************************************************************************)
(* standardize_products called on its own, on raw records of every shape   *)
(* the standardizer distinguishes.                                         *)
(***************************************************************************)
\* The records that have some of the fields of vals, with vals' values.
Pick(vals, fields) == [k \in fields |-> vals[k]]

T(text) == S(<<text>>)

\* Name fields: 'name' a text, empty, None or the sentinel; 'title' a text.
NameParts ==
    {Pick(v, K) : v \in [name : {T("A"), S(<<>>), None, UnknownProduct},
                         title : {T("T")}],
                  K \in SUBSET {"name", "title"}}

\* Price fields: 'price_min' a float or an int; 'variants' empty, or one
\* variant with or without 'compare_at_price' (possibly None).
PriceParts ==
    {Pick(v, K) :
        v \in [price : {S(<<"1", "0", " ", "d", "h">>)},
               price_min : {Float(9999, 2), I(5)},
               variants : {L(<<>>),
                           L(<<[price |-> T("7"), compare_at_price |-> T("8")]>>),
                           L(<<[price |-> T("7"), compare_at_price |-> None]>>),
                           L(<<[price |-> T("7")]>>)},
               original_price : {S(<<"2", "0">>)},
               compare_at_price : {S(<<"3", "0">>)}],
        K \in SUBSET {"price", "price_min", "variants", "original_price",
                      "compare_at_price"}}

\* Image fields: 'image' a string, a dict with or without 'src', or None;
\* 'images' an empty list, a list of a string, a dict or a number, or a string.
ImageParts ==
    {Pick(v, K) :
        v \in [image_url : {T("u")},
               image : {T("i"), D([src |-> T("s")]), D([alt |-> T("a")]), None},
               featured_image : {T("f")},
               images : {L(<<>>), L(<<T("m")>>), L(<<D([src |-> T("n")])>>),
                         L(<<D([alt |-> T("a")])>>), L(<<I(5)>>), T("m")}],
        K \in SUBSET {"image_url", "image", "featured_image", "images"}}

OtherParts ==
    {Pick(v, K) :
        v \in [brand : {T("B")}, vendor : {T("V")}, discount : {S(<<"-", "5", "0", "%">>)},
               url : {T("http://x")}, handle : {T("h")}],
        K \in SUBSET {"brand", "vendor", "discount", "url", "handle"}}

Named == [name |-> T("A")]

\* One raw record: any combination of name fields, or a named record with
\* any combination of price, image or other fields.
RawRecords ==
    NameParts \cup {Named @@ p : p \in PriceParts \cup ImageParts \cup OtherParts}

\* The argument of standardize_products: one raw record, or up to MaxBatch
\* records that differ in their name fields.
RawBatches == {<<r>> : r \in RawRecords} \cup SeqsUpTo(NameParts, MaxBatch)

InitStd ==
    /\ method = "auto"
    /\ pages = 1
    /\ urlHasCollection = FALSE
    /\ Fresh
    /\ fnName = "none"
    /\ fnArg \in RawBatches
    /\ fnResult = None

\* One call of a data_processor function on fnArg.
Call(name, value) ==
    /\ fnName = "none"
    /\ fnName' = name
    /\ fnResult' = value
    /\ UNCHANGED <<fnArg, inputVars, pc, mainVars, traceVars, log, apiVars,
                   selVars, pwSession, pwLoop, pwError>>

\* standardizer.py:8-101
StandardizeProducts ==
    Call("standardize_products", standardize_products(fnArg))

NextStd == StandardizeProducts

SpecStd == InitStd /\ [][NextStd]_vars

(***************************************************************************)
(* The field cleaners called on their own.                                 *)
(***************************************************************************)
CleanChars == {"0", "5", ".", "-", "%", " ", "\t", "d"}

\* The strings of at most MaxLen characters over CleanChars.
FieldStrings == {S(s) : s \in SeqsUpTo(CleanChars, MaxLen)}

\* The numbers 0, 5, -50, 0.0, 1.5 and 152.0.
FieldNumbers == {I(0), I(5), I(-50), Float(0, 0), Float(15, 1), Float(152, 0)}

\* A value of a field of a standardized record.
FieldValues == {None} \cup FieldStrings \cup FieldNumbers

\* Standardized records whose cleaned fields are absent, strings or numbers.
FullSamples ==
    {[name |-> n, brand |-> T("B"), price |-> p, original_price |-> p,
      discount |-> d, url |-> None, image_url |-> T("u")] :
        n \in {None, S(<<" ", "a", " ", " ", "b">>), I(7)},
        p \in {None, S(<<"5", " ", "d">>), Float(15, 1)},
        d \in {None, S(<<"-", "5", "%">>), I(5)}}

\* standardizer.py:78-82: a standardized record can lack 'image_url'.
ImagelessSamples ==
    {[name |-> S(<<" ", "a", " ", " ", "b">>), brand |-> None, price |-> p,
      original_price |-> p, discount |-> d, url |-> T("http://x")] :
        p \in {None, S(<<"5", " ", "d">>), Float(15, 1)},
        d \in {None, S(<<"-", "5", "%">>), I(5)}}

CanonicalSamples == FullSamples \cup ImagelessSamples

InitClean ==
    /\ method = "auto"
    /\ pages = 1
    /\ urlHasCollection = FALSE
    /\ Fresh
    /\ fnName = "none"
    /\ fnArg \in FieldValues \cup
                {L(b) : b \in SeqsUpTo(CanonicalSamples, MaxBatch)}
    /\ fnResult = None

\* cleaner.py:36-52
CleanName == ~IsList(fnArg) /\ Call("clean_name", clean_name(fnArg))

\* clean_name applied to its own result; a call that raises returns nothing
\* to apply it to again.
clean_name_twice(name) ==
    LET once == clean_name(name) IN
    IF once[1] = "raise" THEN once ELSE clean_name(once)

\* cleaner.py:36-52, called on what it returned.
CleanNameTwice ==
    ~IsList(fnArg) /\ Call("clean_name_twice", clean_name_twice(fnArg))

\* cleaner.py:55-76
CleanPrice == ~IsList(fnArg) /\ Call("clean_price", clean_price(fnArg))

\* cleaner.py:79-100
CleanDiscount == ~IsList(fnArg) /\ Call("clean_discount", clean_discount(fnArg))

\* clean_name raises for the name of one of the products.
CleanRaises(batch) ==
    \E i \in 1..Len(batch) :
        clean_name(Get(batch[i], "name"))[1] = "raise"

\* cleaner.py:9-33: an exception of clean_name leaves clean_product_data.
CleanProductData ==
    /\ IsList(fnArg)
    /\ Call("clean_product_data",
            IF CleanRaises(fnArg[2]) THEN TypeError
            ELSE L(clean_product_data(fnArg[2])))

NextClean ==
    \/ CleanName
    \/ CleanNameTwice
    \/ CleanPrice
    \/ CleanDiscount
    \/ CleanProductData

SpecClean == InitClean /\ [][NextClean]_vars

(***************************************************************************)
(* The extraction of one listing element by the two browser backends.      *)
(***************************************************************************)
\* One listing element: whether it has a title element and what its text is
\* (empty, whitespace only, or a text with spaces around it; "stale" when
\* reading the text raises), and which of the other elements it has; the
\* image has a full src, a src that starts with '//', or no src.
Cards ==
    [title : {"absent", "empty", "blank", "text", "stale"}, link : BOOLEAN,
     vendor : BOOLEAN, salePrice : BOOLEAN, cardPrice : BOOLEAN,
     compareAt : BOOLEAN, badge : BOOLEAN,
     img : {"absent", "nosrc", "src", "relative"}]

\* The text of the title element.
TitleText(card) ==
    CASE card.title = "empty" -> <<>>
      [] card.title = "blank" -> <<" ">>
      [] card.title = "text"  -> <<" ", "N", " ">>

\* The src attribute of the image, None when there is none.
ImgSrc(card) ==
    CASE card.img = "src"      -> S(<<"http:", "//", "i">>)
      [] card.img = "relative" -> S(<<"//", "i">>)
      [] OTHER                 -> None

\* 'if img_url.startswith("//"): img_url = "https:" + img_url'
SecureScheme(src) ==
    IF Truthy(src) /\ src[2][1] = "//" THEN S(<<"https:">> \o src[2]) ELSE src

Entry(present, k, v) == IF present THEN k :> v ELSE NoField

\* selenium_scraper.py:127-192: the dict built for one card.
selenium_product(card) ==
    LET hasPrice == card.salePrice \/ card.cardPrice
        price == IF card.salePrice THEN T("sale")
                 ELSE IF card.cardPrice THEN T("card")
                 ELSE T("N/A")
    IN Entry(card.title # "absent", "name", S(Strip(TitleText(card))))
       @@ Entry(card.title # "absent" /\ card.link, "url", T("http://x/p"))
       @@ Entry(card.vendor, "brand", T("B"))
       @@ ("price" :> price)
       @@ ("original_price" :> IF card.compareAt THEN T("was") ELSE price)
       @@ Entry(card.badge, "discount", S(<<"-", "5", "0", "%">>))
       @@ Entry(Truthy(ImgSrc(card)), "image_url", SecureScheme(ImgSrc(card)))

\* selenium_scraper.py:195-196: 'if "name" in product'
selenium_emits(card) == "name" \in DOMAIN selenium_product(card)

\* justyol.py:105-146: the dict built for one listing element.
playwright_product(card) ==
    LET price == IF card.salePrice THEN T("sale") ELSE None IN
    [name           |-> IF card.title = "absent" THEN None ELSE S(TitleText(card)),
     brand          |-> IF card.vendor THEN T("B") ELSE None,
     price          |-> price,
     original_price |-> IF card.compareAt THEN T("was") ELSE price,
     discount       |-> IF card.badge THEN S(<<"-", "5", "0", "%">>) ELSE None,
     url            |-> IF card.link THEN S(<<"https://justyol.com", "/p">>)
                        ELSE None,
     image_url      |-> SecureScheme(ImgSrc(card))]

\* justyol.py:137: 'if name'
playwright_emits(card) == Truthy(playwright_product(card)["name"])

InitCard ==
    /\ method = "auto"
    /\ pages = 1
    /\ urlHasCollection = FALSE
    /\ Fresh
    /\ fnName = "none"
    /\ fnArg \in Cards
    /\ fnResult = None

\* selenium_scraper.py:140 'name_el.text' and justyol.py:106 'inner_text()'
\* stand in no inner try: when they raise, the except of the element is
\* reached.
CardRaises(card) == card.title = "stale"

\* selenium_scraper.py:125-199: the records one card adds to all_products;
\* the except of line 197 logs a warning and goes on with the next card.
selenium_card(card) ==
    IF CardRaises(card) THEN <<>>
    ELSE IF selenium_emits(card) THEN <<selenium_product(card)>>
    ELSE <<>>

\* justyol.py:103-149: the records one element adds to products.
playwright_card(card) ==
    IF CardRaises(card) THEN <<>>
    ELSE IF playwright_emits(card) THEN <<playwright_product(card)>>
    ELSE <<>>

SeleniumCardStep == Call("selenium_card", L(selenium_card(fnArg)))

PlaywrightCardStep == Call("playwright_card", L(playwright_card(fnArg)))

NextCard ==
    \/ SeleniumCardStep
    \/ PlaywrightCardStep

SpecCard == InitCard /\ [][NextCard]_vars

(***************************************************************************)
(* The visible-DOM fallback of the Selenium backend as a function of what  *)
(* the pages show (selenium_scraper.py:101-204).                           *)
(***************************************************************************)
\* The listing elements of the pages: with or without a title element, or
\* with one whose text cannot be read, and with or without a vendor.
PageCards ==
    {c \in Cards : /\ c.title \in {"absent", "text", "stale"}
                   /\ c.link /\ c.salePrice /\ ~c.cardPrice
                   /\ ~c.compareAt /\ ~c.badge /\ c.img = "absent"}

\* What one page of the fallback shows: loading it or finding its cards
\* raises, its title tells not-found, it has no listing element, or it has
\* the listing elements cards.
FallbackPages ==
    [kind : {"error", "notfound", "nocards"}]
    \cup {[kind |-> "cards", cards |-> cs] :
              cs \in SeqsUpTo(PageCards, MaxCards) \ {<<>>}}

\* Mutant: an element that fails ends the extraction of its page.
RECURSIVE selenium_cardsStopAtFailure(_)
selenium_cardsStopAtFailure(cards) ==
    IF cards = <<>> \/ CardRaises(Head(cards)) THEN <<>>
    ELSE selenium_card(Head(cards)) \o selenium_cardsStopAtFailure(Tail(cards))

\* selenium_scraper.py:125-199: the loop over product_cards.
RECURSIVE selenium_cards(_)
selenium_cards(cards) ==
    IF cards = <<>> THEN <<>>
    ELSE selenium_card(Head(cards)) \o selenium_cards(Tail(cards))

\* selenium_scraper.py:102-204: the loop over the pages 1..pages, given what
\* each of them shows, and 'return all_products'.
RECURSIVE selenium_fallback(_)
selenium_fallback(shown) ==
    IF shown = <<>> THEN <<>>
    ELSE IF Head(shown).kind # "cards" THEN <<>>
    ELSE selenium_cards(Head(shown).cards) \o selenium_fallback(Tail(shown))

InitPage ==
    /\ method = "selenium"
    /\ pages \in 0..MaxPages
    /\ urlHasCollection = FALSE
    /\ Fresh
    /\ fnName = "none"
    /\ fnArg \in {shown \in SeqsUpTo(FallbackPages, MaxPages) : Len(shown) = pages}
    /\ fnResult = None

SeleniumFallback == Call("selenium_fallback", L(selenium_fallback(fnArg)))

NextPageSet == SeleniumFallback

SpecPage == InitPage /\ [][NextPageSet]_vars

(***************************************************************************)
(* The read service (api/main.py): one product by id.                      *)
(***************************************************************************)
\* products.db as the service finds it: the products table with its rows
\* keyed by id, or a file the query fails on (no products table, locked).
Stores ==
    {[readable |-> FALSE, rows |-> NoField]}
    \cup UNION {{[readable |-> TRUE, rows |-> r] : r \in [ids -> {None, T("B")}]}
                : ids \in SUBSET (1..MaxId)}

\* 'raise HTTPException(status_code=..., detail=...)'
HTTPException(status, detail) == <<"raise", "HTTPException", status, detail>>

\* str(e) of the exception caught at api/main.py:121.
ErrorText(e) == IF e[2] = "HTTPException" THEN <<e[3], ": ", e[4]>> ELSE <<e[3]>>

\* api/main.py:100-120: the body of the try block.
get_product_body(store, product_id) ==
    IF ~store.readable THEN <<"raise", "OperationalError", "no such table">>
    ELSE IF product_id \in DOMAIN store.rows
    THEN <<"return", [id |-> product_id, brand |-> store.rows[product_id]]>>
    ELSE HTTPException(404, "Product not found")

\* api/main.py:88-122: 'except Exception as e' catches what the body raises.
get_product(store, product_id) ==
    LET r == get_product_body(store, product_id) IN
    IF r[1] = "raise" THEN HTTPException(500, ErrorText(r)) ELSE r

InitRead ==
    /\ method = "auto"
    /\ pages = 1
    /\ urlHasCollection = FALSE
    /\ Fresh
    /\ fnName = "none"
    /\ fnArg \in [store : Stores, product_id : 0..(MaxId + 1)]
    /\ fnResult = None

\* GET /products/{product_id}
GetProduct == Call("get_product", get_product(fnArg.store, fnArg.product_id))

NextRead == GetProduct

SpecRead == InitRead /\ [][NextRead]_vars

(***************************************************************************)
(* Properties                                                              *)
(***************************************************************************)
ResultOf(b) ==
    CASE b = "api"        -> api_products
      [] b = "selenium"   -> selenium_products
      [] b = "playwright" -> playwright_products

Called(b) == \E i \in 1..Len(calls) : calls[i] = b

Logged(m) == \E i \in 1..Len(log) : log[i] = m

\* The backends that come after b in the order API, Selenium, Playwright.
Later(b) ==
    CASE b = "api"        -> {"selenium", "playwright"}
      [] b = "selenium"   -> {"playwright"}
      [] b = "playwright" -> {}

\* The threshold check of main on b's result has been made.
Checked(b) ==
    /\ b \in returned
    /\ pc # (CASE b = "api"        -> "main_api_check"
               [] b = "selenium"   -> "main_selenium_check"
               [] b = "playwright" -> "main_playwright_check")

\* C1: in auto mode, once a backend has returned more than 3 records no later
\* backend of the order API, Selenium, Playwright is invoked, and at the end
\* of the run the records handed to standardization are that backend's.
C1_ShortCircuit ==
    method = "auto" =>
        \A b \in Backends :
            (b \in returned /\ Len(ResultOf(b)) > 3) =>
                /\ \A c \in Later(b) : ~Called(c)
                /\ pc = "done" => stdInput = L(ResultOf(b))

C1_Witness ==
    /\ method = "auto"
    /\ pc = "done"
    /\ "api" \in returned
    /\ Len(api_products) > 3
    /\ stdInput = L(api_products)

\* C2: in auto mode, when no backend returned more than 3 records the run
\* ends in AllFailed: nothing is exported, no exception leaves main, all
\* three backends were attempted and the log tells the rejection of each.
C2_Exhaustion ==
    (/\ method = "auto"
     /\ pc = "done"
     /\ \A b \in Backends : ~(b \in returned /\ Len(ResultOf(b)) > 3)) =>
        /\ outcome = "AllFailed"
        /\ exported = None
        /\ raised = "none"
        /\ calls = <<"api", "selenium", "playwright">>
        /\ Logged("INFO API-based scraping failed, trying Selenium")
        /\ Logged("INFO Selenium-based scraping failed, trying Playwright")
        /\ \/ Logged("WARNING Playwright-based scraping failed")
           \/ Logged("ERROR An error occurred during Playwright scraping")

\* C3: a backend's result is accepted (assigned to products) if and only if
\* it holds strictly more than 3 records.
C3_Threshold ==
    \A b \in Backends :
        Checked(b) =>
            ((accepted = b /\ products = ResultOf(b)) <=> Len(ResultOf(b)) > 3)

C3_Witness ==
    /\ Checked("selenium")
    /\ Len(selenium_products) = 3
    /\ accepted = "none"
    /\ products = <<>>

\* C4 as stated: in forced mode a pinned backend that returned 1 to 3 records
\* has those records standardized, cleaned and handed to export.
C4_ForcedAsIs ==
    (/\ method # "auto"
     /\ pc = "done"
     /\ method \in returned
     /\ Len(ResultOf(method)) \in 1..3) =>
        /\ stdInput = L(ResultOf(method))
        /\ exported = L(clean_product_data(standardize_products(ResultOf(method))))

\* C4 amended: in forced mode the threshold applies to the pinned backend as
\* well: a pinned backend that returned 3 or fewer records is reported as
\* failed and nothing is standardized or exported, and one that returned more
\* than 3 records has exactly those records standardized and exported.
C4_ForcedThreshold ==
    (method # "auto" /\ pc = "done" /\ method \in returned) =>
        IF Len(ResultOf(method)) <= 3
        THEN outcome = "AllFailed" /\ stdInput = None /\ exported = None
        ELSE /\ outcome = "Exported"
             /\ stdInput = L(ResultOf(method))
             /\ exported # None

C4_Witness ==
    /\ method = "selenium"
    /\ pc = "done"
    /\ "selenium" \in returned
    /\ Len(selenium_products) \in 1..3
    /\ outcome = "AllFailed"

\* C5: in forced mode no backend other than the pinned one is ever invoked,
\* whatever the pinned backend returns and however it fails.
C5_ForcedOnlyPinned ==
    method # "auto" =>
        /\ \A i \in 1..Len(calls) : calls[i] = method
        /\ active \subseteq {method}

C5_Witness ==
    /\ method = "api"
    /\ pc = "done"
    /\ calls = <<"api">>
    /\ api_products = <<>>
    /\ outcome = "AllFailed"

\* C6: no error raised inside a backend reaches the caller of main; a browser
\* launch that fails counts as an empty result, and in auto mode the backend
\* after Selenium is still tried.
C6_ErrorsContained ==
    /\ raised = "none"
    /\ (method = "auto" /\ pc = "done" /\ Called("selenium")
        /\ ~(Checked("selenium") /\ Len(selenium_products) > 3))
           => Called("playwright")

\* C7: scrape_products of every backend returns and never raises: once the
\* call of a backend's scrape_products is over, it has returned.
C7_ScrapeNeverRaises ==
    /\ (Called("api") /\ "api" \notin active) => "api" \in returned
    /\ (Called("selenium") /\ "selenium" \notin active) => "selenium" \in returned
    /\ (pwContext /\ pc \in {"pw_finally", "main_final", "done"})
           => "playwright" \in returned

\* C8: when the run is over, every automation or browser process that was
\* started has been closed.
C8_Teardown ==
    pc = "done" =>
        /\ selDriver # "open"
        /\ pwDriver # "running"
        /\ pwBrowser # "open"

\* C9: never two backends active nor two browser sessions open at once: the
\* Selenium session is closed before anything of Playwright is started.
C9_Sequential ==
    /\ Cardinality(active) <= 1
    /\ (pwDriver # "none" \/ pwBrowser # "none" \/ Called("playwright"))
           => selDriver # "open"

C9_Witness ==
    /\ selDriver = "closed"
    /\ pwDriver = "running"
    /\ pwBrowser = "open"
    /\ active = {"playwright"}

\* The call of justyol.scrape_products is over (returned or raised).
DomScrapeOver ==
    /\ pwContext
    /\ pc \in {"main_playwright_check", "pw_finally", "main_final", "done"}

\* Every page that was asked for its next page showed an enabled next control.
AllNextEnabled == \A i \in 1..Len(navSeen) : navSeen[i] = "enabled"

WentOnAfterTwoEmpty ==
    /\ extractions >= 3
    /\ PageYield(1) = 0
    /\ PageYield(2) = 0

\* C11 as stated: the page traversal of the DOM-scraping backend ends when
\* two consecutive pages have yielded no record, so no third page is
\* extracted after two empty ones.
C11_StopsOnTwoEmpty == ~WentOnAfterTwoEmpty

\* C11 amended: the page traversal of the DOM-scraping backend goes on only
\* while the page budget is not reached and the last navigation found a next
\* page; when it returns, the budget was reached or no next-page signal was
\* found; otherwise it ends because a browser step raised.  Pages without
\* records do not end it.
C11_Termination ==
    /\ pc = "pw_next" => pwI + 1 < pages
    /\ pc = "pw_extract" =>
           /\ pwI < pages
           /\ pwI > 0 => lastClick # "none"
    /\ (DomScrapeOver /\ "playwright" \in returned) =>
           \/ extractions = pages
           \/ navSeen # <<>> /\ lastClick = "none"
    /\ (DomScrapeOver /\ "playwright" \notin returned) => pwError

C11_Witness ==
    /\ WentOnAfterTwoEmpty
    /\ pages = 3
    /\ "playwright" \in returned
    /\ pc = "done"

\* C12: a call of _go_to_next_page in which nothing raises clicks the next
\* control exactly when one is present and not marked disabled, clicks the
\* load-more control exactly when no next control is present and a load-more
\* control is, and clicks nothing otherwise; the traversal advances exactly
\* when a control was clicked and returns otherwise.
C12_NextPagePriority ==
    [][(pc = "pw_next" /\ lastNav'.step = "ok") =>
          /\ lastNav'.next = "enabled" => lastClick' = "next"
          /\ lastNav'.next = "disabled" => lastClick' = "none"
          /\ (lastNav'.next = "absent" /\ lastNav'.loadMore) =>
                 lastClick' = "load_more"
          /\ (lastNav'.next = "absent" /\ ~lastNav'.loadMore) =>
                 lastClick' = "none"
          /\ (lastClick' # "none") <=> (navigations' = navigations + 1)
          /\ (lastClick' = "none") <=>
                 (pc' = "main_playwright_check" /\ "playwright" \in returned')
      ]_vars

\* A disabled next control was met on a page that also shows a load-more
\* control: nothing was clicked and the traversal returned.
C12_Witness ==
    /\ navSeen # <<>>
    /\ lastNav = [next |-> "disabled", loadMore |-> TRUE, step |-> "ok"]
    /\ lastClick = "none"
    /\ navigations = 0
    /\ "playwright" \in returned

\* standardize_products has been called on its own and has returned.
Standardized == fnName = "standardize_products"

\* The raw record has a 'name' or a 'title' field.
HasNameOrTitle(raw) == "name" \in DOMAIN raw \/ "title" \in DOMAIN raw

\* C13: every record standardize_products returns has a name that is neither
\* absent, nor empty, nor the sentinel 'Unknown Product'; and each returned
\* record stems from a raw record that has 'name' or 'title', so that raw
\* records lacking both are left out.
C13_NamedOnly ==
    Standardized =>
        /\ \A i \in 1..Len(fnResult) :
              /\ "name" \in DOMAIN fnResult[i]
              /\ fnResult[i]["name"] # None
              /\ fnResult[i]["name"] # S(<<>>)
              /\ fnResult[i]["name"] #
                     S(<<"U", "n", "k", "n", "o", "w", "n", " ",
                         "P", "r", "o", "d", "u", "c", "t">>)
              /\ \E j \in 1..Len(fnArg) :
                    /\ HasNameOrTitle(fnArg[j])
                    /\ fnResult[i]["name"] =
                          IF "name" \in DOMAIN fnArg[j] THEN fnArg[j]["name"]
                          ELSE fnArg[j]["title"]
        /\ Len(fnResult) <=
              Cardinality({j \in 1..Len(fnArg) : HasNameOrTitle(fnArg[j])})

\* A batch of a record without 'name' and 'title' and a titled record: only
\* the titled one is returned.
C13_Witness ==
    /\ Standardized
    /\ Len(fnArg) = 2
    /\ ~HasNameOrTitle(fnArg[1])
    /\ HasNameOrTitle(fnArg[2])
    /\ Len(fnResult) = 1
    /\ fnResult[1]["name"] = T("T")

\* standardize_products was called on one raw record and returned its
\* standardized record.
StandardizedOne ==
    /\ Standardized
    /\ Len(fnArg) = 1
    /\ Len(fnResult) = 1

\* The record has a non-empty 'variants' list whose first element has field k.
FirstVariantField(raw, k) ==
    /\ "variants" \in DOMAIN raw
    /\ raw["variants"] # L(<<>>)
    /\ k \in DOMAIN raw["variants"][2][1]

\* The price the priority order price, price_min (as a string), first
\* variant's price, absent gives for the raw record.
PriceByPriority(raw) ==
    IF "price" \in DOMAIN raw THEN raw["price"]
    ELSE IF "price_min" \in DOMAIN raw
         THEN IF raw["price_min"][1] = "float"
              THEN S(<<"9", "9", ".", "9", "9">>)    \* str(99.99)
              ELSE S(<<"5">>)                        \* str(5)
    ELSE IF FirstVariantField(raw, "price")
         THEN raw["variants"][2][1]["price"]
    ELSE None

\* C14: the price of a standardized record is the raw record's 'price' if it
\* has one, else its 'price_min' as a string, else the 'price' of its first
\* variant, else absent; with both 'price' and 'price_min' it is 'price'.
C14_PricePriority ==
    StandardizedOne =>
        /\ "price" \in DOMAIN fnResult[1]
        /\ fnResult[1]["price"] = PriceByPriority(fnArg[1])

C14_Witness ==
    /\ StandardizedOne
    /\ {"price", "price_min", "variants"} \subseteq DOMAIN fnArg[1]
    /\ fnArg[1]["price_min"] = Float(9999, 2)
    /\ fnResult[1]["price"] = S(<<"1", "0", " ", "d", "h">>)

\* The raw record has neither 'original_price' nor 'compare_at_price'.
NoOriginalPriceField(raw) ==
    /\ "original_price" \notin DOMAIN raw
    /\ "compare_at_price" \notin DOMAIN raw

\* C15 as stated: for a raw record with neither 'original_price' nor
\* 'compare_at_price' the standardized original_price equals the
\* standardized price.
C15_DefaultsToPrice ==
    (StandardizedOne /\ NoOriginalPriceField(fnArg[1])) =>
        fnResult[1]["original_price"] = fnResult[1]["price"]

\* C15 amended: for a raw record with neither 'original_price' nor
\* 'compare_at_price', the standardized original_price is the
\* 'compare_at_price' of the first variant when that variant has the field
\* (whatever its value, None included), and equals the standardized price
\* otherwise.
C15_DefaultsAfterVariant ==
    (StandardizedOne /\ NoOriginalPriceField(fnArg[1])) =>
        fnResult[1]["original_price"] =
            IF FirstVariantField(fnArg[1], "compare_at_price")
            THEN fnArg[1]["variants"][2][1]["compare_at_price"]
            ELSE fnResult[1]["price"]

\* A record with 'price' and a first variant holding 'compare_at_price': the
\* original price is the variant's, not the price.
C15_Witness ==
    /\ StandardizedOne
    /\ NoOriginalPriceField(fnArg[1])
    /\ "price" \in DOMAIN fnArg[1]
    /\ FirstVariantField(fnArg[1], "compare_at_price")
    /\ fnResult[1]["original_price"] = T("8")
    /\ fnResult[1]["price"] = S(<<"1", "0", " ", "d", "h">>)

\* The value is a string, or a dict with 'src'.
UsableImage(v) == v[1] = "str" \/ (v[1] = "dict" /\ "src" \in DOMAIN v[2])

ImageOf(v) == IF v[1] = "str" THEN v ELSE v[2]["src"]

\* The 'images' field, if any, is an empty list or a list whose first element
\* is a string or a dict with 'src'.
PlainImages(raw) ==
    "images" \in DOMAIN raw =>
        /\ raw["images"][1] = "list"
        /\ raw["images"] # L(<<>>) => UsableImage(raw["images"][2][1])

\* The image the priority order of C16 gives for the raw record.
ImageByPriority(raw) ==
    IF "image_url" \in DOMAIN raw THEN raw["image_url"]
    ELSE IF "image" \in DOMAIN raw /\ UsableImage(raw["image"])
         THEN ImageOf(raw["image"])
    ELSE IF "featured_image" \in DOMAIN raw THEN raw["featured_image"]
    ELSE IF "images" \in DOMAIN raw /\ raw["images"] # L(<<>>)
         THEN ImageOf(raw["images"][2][1])
    ELSE None

\* C16: the image_url of a standardized record is the first that applies of:
\* the raw 'image_url'; 'image' when it is a string or a dict with 'src';
\* 'featured_image'; the first element of 'images' (a string, or the 'src'
\* of a dict); else absent.  In particular a record whose 'image' is neither
\* a string nor a dict with 'src' resolves from 'featured_image' or 'images'.
C16_ImagePriority ==
    (StandardizedOne /\ PlainImages(fnArg[1])) =>
        /\ "image_url" \in DOMAIN fnResult[1]
        /\ fnResult[1]["image_url"] = ImageByPriority(fnArg[1])

\* C17: every record standardize_products returns has exactly the seven
\* fields name, brand, price, original_price, discount, url and image_url.
C17_SevenFields ==
    Standardized =>
        \A i \in 1..Len(fnResult) :
            DOMAIN fnResult[i] = {"name", "brand", "price", "original_price",
                                  "discount", "url", "image_url"}

\* C18: clean_name, clean_price, clean_discount and clean_product_data do
\* not raise, whatever field values they are given: absent, strings (empty
\* included) or numbers.
C18_CleanersNeverRaise ==
    fnName \in {"clean_name", "clean_price", "clean_discount",
                "clean_product_data"} =>
        fnResult[1] # "raise"

\* The argument of the cleaner is absent or a string.
TextArg == fnArg = None \/ fnArg[1] = "str"

AllDigits(t, from, to) == \A j \in from..to : t[j] \in {"0", "5"}

\* t is digits, or digits, a point and digits.
IsNumericToken(t) ==
    \E k \in 1..Len(t) :
        /\ AllDigits(t, 1, k)
        /\ \/ k = Len(t)
           \/ /\ k + 2 <= Len(t)
              /\ t[k + 1] = "."
              /\ AllDigits(t, k + 2, Len(t))

HasDigit(s) == \E i \in 1..Len(s) : AllDigits(s, i, i)

\* Where the first digit of s stands.
FirstDigit(s) ==
    CHOOSE i \in 1..Len(s) : AllDigits(s, i, i) /\ ~HasDigit(SubSeq(s, 1, i - 1))

\* The longest numeric token of s that starts at its first digit.
FirstNumericToken(s) ==
    LET p == FirstDigit(s)
        e == CHOOSE e \in p..Len(s) :
                 /\ IsNumericToken(SubSeq(s, p, e))
                 /\ \A f \in (e + 1)..Len(s) : ~IsNumericToken(SubSeq(s, p, f))
    IN SubSeq(s, p, e)

\* The longest run of digits of s that starts at its first digit.
FirstDigitRun(s) ==
    LET p == FirstDigit(s)
        e == CHOOSE e \in p..Len(s) :
                 /\ AllDigits(s, p, e)
                 /\ (e = Len(s) \/ ~AllDigits(s, e + 1, e + 1))
    IN SubSeq(s, p, e)

\* The number a sequence of the digits 0 and 5 writes, the point left out.
RECURSIVE Written(_)
Written(t) ==
    IF t = <<>> THEN 0
    ELSE IF t[Len(t)] = "." THEN Written(SubSeq(t, 1, Len(t) - 1))
    ELSE 10 * Written(SubSeq(t, 1, Len(t) - 1)) + (IF t[Len(t)] = "5" THEN 5 ELSE 0)

\* The number of digits of t behind its point, 0 if it has none.
Decimals(t) ==
    IF \E i \in 1..Len(t) : t[i] = "."
    THEN Len(t) - (CHOOSE i \in 1..Len(t) : t[i] = ".")
    ELSE 0

\* C19: for an absent or string input, clean_price returns absent when the
\* input is absent or holds no digit, and otherwise the float that the first
\* numeric token of the input writes: the longest text of digits with at
\* most one decimal part that starts at the first digit.
C19_FirstNumericToken ==
    (fnName = "clean_price" /\ TextArg) =>
        IF fnArg = None \/ ~HasDigit(fnArg[2]) THEN fnResult = None
        ELSE LET tok == FirstNumericToken(fnArg[2]) IN
             /\ fnResult[1] = "float"
             /\ fnResult[2] * Pow10(Decimals(tok)) =
                    Written(tok) * Pow10(fnResult[3])

\* clean_price('-5.5') is 5.5.
C19_Witness ==
    /\ fnName = "clean_price"
    /\ fnArg = S(<<"-", "5", ".", "5">>)
    /\ fnResult = <<"float", 55, 1>>

\* C20: for an absent or string input, clean_discount returns absent when
\* the input is absent or holds no digit, and otherwise the non-negative
\* integer that the first run of digits of the input writes, whatever sign
\* stands before it and whether or not a percent sign follows.
C20_FirstDigitRun ==
    (fnName = "clean_discount" /\ TextArg) =>
        IF fnArg = None \/ ~HasDigit(fnArg[2]) THEN fnResult = None
        ELSE /\ fnResult[1] = "int"
             /\ fnResult[2] = Written(FirstDigitRun(fnArg[2]))
             /\ fnResult[2] >= 0

\* clean_discount('-50%') is 50.
C20_Witness ==
    /\ fnName = "clean_discount"
    /\ fnArg = S(<<"-", "5", "0", "%">>)
    /\ fnResult = <<"int", 50>>

Blank(c) == c \in {" ", "\t", "\n"}

\* The words of s: its maximal runs of characters that are no whitespace.
RECURSIVE Words(_)
Words(s) ==
    IF s = <<>> THEN <<>>
    ELSE IF Blank(s[1]) THEN Words(Tail(s))
    ELSE LET n == CHOOSE n \in 1..Len(s) :
                      /\ \A j \in 1..n : ~Blank(s[j])
                      /\ (n = Len(s) \/ Blank(s[n + 1]))
         IN <<SubSeq(s, 1, n)>> \o Words(SubSeq(s, n + 1, Len(s)))

\* The words joined by single spaces.
RECURSIVE Joined(_)
Joined(ws) ==
    IF ws = <<>> THEN <<>>
    ELSE IF Len(ws) = 1 THEN ws[1]
    ELSE ws[1] \o <<" ">> \o Joined(Tail(ws))

\* C21 as stated: for an absent input clean_name returns absent, and for a
\* string it returns the string with every run of whitespace collapsed to one
\* space and the whitespace at both ends removed, that is, its words joined
\* by single spaces.
C21_CollapseAndTrim ==
    (fnName = "clean_name" /\ TextArg) =>
        IF fnArg = None THEN fnResult = None
        ELSE fnResult = S(Joined(Words(fnArg[2])))

\* C21 amended: clean_name returns absent for an absent input and for the
\* empty string; for every other string it returns the words of the string
\* joined by single spaces (the empty string when it holds whitespace only).
C21_CollapseTrimOrAbsent ==
    (fnName = "clean_name" /\ TextArg) =>
        IF fnArg = None \/ fnArg = S(<<>>) THEN fnResult = None
        ELSE fnResult = S(Joined(Words(fnArg[2])))

\* clean_name(' d \t d') is 'd d'.
C21_Witness ==
    /\ fnName = "clean_name"
    /\ fnArg = S(<<" ", "d", "\t", "d">>)
    /\ fnResult = S(<<"d", " ", "d">>)

\* The value of field k of the record, absent when it has no such field.
FieldOf(record, k) == IF k \in DOMAIN record THEN record[k] ELSE <<"none">>

\* C22: clean_product_data returns one cleaned record per input record, in
\* the order of the input; each has exactly the fields name, brand, price,
\* original_price, discount, url and image_url; brand, url and image_url are
\* those of the input record, and a cleaned name, price or discount is
\* absent exactly when the input's is.
C22_OnePerRecord ==
    fnName = "clean_product_data" =>
        /\ fnResult[1] = "list"
        /\ Len(fnResult[2]) = Len(fnArg[2])
        /\ \A i \in 1..Len(fnArg[2]) :
              LET in == fnArg[2][i]
                  out == fnResult[2][i]
              IN /\ DOMAIN out = {"name", "brand", "price", "original_price",
                                  "discount", "url", "image_url"}
                 /\ \A k \in {"brand", "url", "image_url"} :
                       out[k] = FieldOf(in, k)
                 /\ \A k \in {"name", "price", "original_price", "discount"} :
                       (out[k] = <<"none">>) <=> (FieldOf(in, k) = <<"none">>)

\* Every record of the sequence stems from endpoint ep of the approach.
FromEndpoint(records, approach, ep) ==
    \A i \in 1..Len(records) :
        /\ records[i]["handle"][2][1] = approach
        /\ records[i]["handle"][2][2] = Digits[ep + 1]

\* C23: the direct-API probe requests its endpoints in list order, one per
\* step; every endpoint passed over failed (timeout, refused connection,
\* non-200 status, unparsable body or no "products" key) and is followed by
\* the next one; the first endpoint whose body has a "products" key supplies
\* the result and ends the probe; and the probe reports no success only after
\* the last endpoint.
C23_ProbeOrder ==
    [][(pc = "api_direct" /\ urlHasCollection) =>
          /\ apiEp \in 1..NumEndpoints
          /\ Len(apiSkipped) = apiEp - 1
          /\ \/ /\ pc' = "api_direct"
                /\ apiEp < NumEndpoints
                /\ apiEp' = apiEp + 1
                /\ \E k \in {"timeout", "refused", "non200", "notjson", "nokey"} :
                      apiSkipped' = Append(apiSkipped, k)
             \/ /\ pc' = "api_inventory"
                /\ apiData' # None
                /\ FromEndpoint(apiData'[2], "direct", apiEp)
             \/ /\ pc' = "main_api_check"
                /\ api_products' # <<>>
                /\ FromEndpoint(api_products', "direct", apiEp)
             \/ /\ pc' = "api_inventory"
                /\ apiData' = None
                /\ apiEp = NumEndpoints
      ]_vars

\* The first endpoint failed, the second supplied two records, and the third
\* was not requested.
C23_Witness ==
    /\ pc = "api_inventory"
    /\ apiEp = 1
    /\ apiData # None
    /\ Len(apiData[2]) = 2
    /\ FromEndpoint(apiData[2], "direct", 2)

\* C24: the network-sniffing backend reads the bodies of the captured
\* responses in capture order; a body that cannot be read or has no
\* "products" key is passed over; the first body with a "products" key is
\* returned and no DOM extraction follows; the visible-DOM extraction begins
\* exactly when every captured body has been read and none qualified.
C24_SniffThenFallback ==
    [][/\ pc = "sel_bodies" =>
            /\ Len(selRead) <= selCaptured
            /\ \/ /\ pc' = "sel_bodies"
                  /\ Len(selRead) < selCaptured
                  /\ \E k \in {"unreadable", "nokey"} :
                        selRead' = Append(selRead, k)
               \/ /\ pc' = "sel_finally"
                  /\ Len(selRead) < selCaptured
                  /\ FromEndpoint(selResult', "sniff", Len(selRead) + 1)
                  /\ all_products' = <<>>
               \/ /\ pc' = "sel_page"
                  /\ Len(selRead) = selCaptured
       /\ pc' = "sel_page" => pc \in {"sel_bodies", "sel_page"}
      ]_vars

\* The first captured body did not qualify and the second supplied the
\* result: the backend returns it without any DOM extraction.
C24_Witness ==
    /\ pc = "main_selenium_check"
    /\ Len(selenium_products) = 2
    /\ FromEndpoint(selenium_products, "sniff", 2)
    /\ all_products = <<>>
    /\ ~Logged("INFO falling back to visible products")

\* The extraction of one listing element by a browser backend is over.
CardDone == fnName \in {"selenium_card", "playwright_card"}

\* C25: in both browser backends a listing element whose title element is
\* missing or has no content yields no raw record, every raw record that is
\* emitted has a name that is neither absent nor empty, and an element with
\* a title text yields a record whether or not it has a brand, a price, a
\* discount badge or an image.
C25_NamedRecordsOnly ==
    CardDone =>
        /\ fnArg.title \in {"absent", "empty"} => fnResult = L(<<>>)
        /\ fnResult # L(<<>>) =>
              /\ "name" \in DOMAIN fnResult[2][1]
              /\ fnResult[2][1]["name"] # <<"none">>
              /\ fnResult[2][1]["name"] # S(<<>>)
        /\ fnArg.title = "text" => fnResult # L(<<>>)

\* The HTTP status of the response of the read service.
Status(response) == IF response[1] = "raise" THEN response[3] ELSE 200

\* C26: fetching a product whose id is not in a readable store answers 404,
\* and a store that cannot be read answers 500.
C26_NotFoundIsNot500 ==
    fnName = "get_product" =>
        /\ (fnArg.store.readable /\ fnArg.product_id \notin DOMAIN fnArg.store.rows)
              => Status(fnResult) = 404
        /\ ~fnArg.store.readable => Status(fnResult) = 500

\* The order in which auto mode tries the backends.
Order == <<"api", "selenium", "playwright">>

\* main has checked b's result and has not taken it.
Rejected(b) ==
    /\ Checked(b)
    /\ Len(ResultOf(b)) <= Threshold
    /\ accepted # b

\* C27: in auto mode the backends invoked so far are the first ones of the
\* order API, Selenium, Playwright, each once, and a backend has been invoked
\* only if every backend before it returned and was rejected by main.
C27_AutoOrder ==
    method = "auto" =>
        /\ \E n \in 0..Len(Order) : calls = SubSeq(Order, 1, n)
        /\ \A b \in Backends : \A c \in Later(b) : Called(c) => Rejected(b)

C27_Witness ==
    /\ method = "auto"
    /\ calls = Order
    /\ pc = "pw_start"
    /\ Rejected("api")
    /\ Rejected("selenium")
    /\ Len(selenium_products) = Threshold

\* The positions of scrape_products of the API backend, one per approach.
ApiApproaches == {"api_direct", "api_inventory", "api_graphql"}

\* The records are those of the approach at position p.
ProducedAt(records, p) ==
    IF p = "api_graphql" THEN records = GraphqlBody(Len(records))
    ELSE \A i \in 1..Len(records) :
            records[i]["handle"][2][1] =
                (IF p = "api_direct" THEN "direct" ELSE "inventory")

\* C28: the API backend starts with the direct endpoints, goes from them only
\* to the inventory endpoints and from these only to GraphQL, and leaves an
\* approach for the next only when it produced 3 or fewer records; it returns
\* the records of the approach it is in when these are more than 3, and an
\* empty sequence only after GraphQL; its result has 0 or more than 3
\* records.
C28_ApproachOrder ==
    [][/\ pc' = "api_direct" => pc \in {"main_api", "api_direct"}
       /\ pc' = "api_inventory" => pc \in {"api_direct", "api_inventory"}
       /\ pc' = "api_graphql" => pc \in {"api_inventory", "api_graphql"}
       /\ (pc \in ApiApproaches /\ pc' \in ApiApproaches /\ pc' # pc) =>
              Len(Rows(apiData')) <= 3
       /\ (pc \in ApiApproaches /\ pc' = "main_api_check") =>
              \/ Len(api_products') > 3 /\ ProducedAt(api_products', pc)
              \/ api_products' = <<>> /\ pc = "api_graphql"
       /\ "api" \in returned' =>
              (Len(api_products') = 0 \/ Len(api_products') > 3)
      ]_vars

\* The direct endpoints gave too few records, the inventory endpoints three,
\* and GraphQL is attempted.
C28_Witness ==
    /\ pc = "api_graphql"
    /\ apiData # None
    /\ Len(apiData[2]) = 3
    /\ ProducedAt(apiData[2], "api_inventory")

\* C29: the visible-DOM fallback of the Selenium backend loads the pages
\* 1, 2, ... in this order and never more than the page budget; every page
\* before the current one showed listing elements; a page whose title tells
\* not-found or that shows no listing element ends the loop with the records
\* collected before it, and nothing is extracted from it or after it.
C29_FallbackPages ==
    [][/\ Len(selSeen') <= pages
       /\ pc = "sel_page" =>
            /\ selPage \in 1..(pages + 1)
            /\ Len(selSeen) = selPage - 1
            /\ \A i \in 1..Len(selSeen) : selSeen[i] = "cards"
            /\ \/ /\ pc' = "sel_page"
                  /\ selPage <= pages
                  /\ selPage' = selPage + 1
                  /\ selSeen' = Append(selSeen, "cards")
                  /\ \E n \in 0..MaxCards :
                        all_products' = all_products \o SeleniumCards(selPage, n)
               \/ /\ pc' = "sel_finally"
                  /\ selPage <= pages
                  /\ \E k \in {"notfound", "nocards", "error"} :
                        selSeen' = Append(selSeen, k)
                  /\ all_products' = all_products
                  /\ selResult' = all_products
               \/ /\ pc' = "sel_finally"
                  /\ selPage = pages + 1
                  /\ selSeen' = selSeen
                  /\ all_products' = all_products
                  /\ selResult' = all_products
      ]_vars

\* With a budget of two pages, page 1 gave a record and page 2 shows no
\* listing element: the loop is over with the record of page 1.
C29_Witness ==
    /\ pc = "sel_finally"
    /\ pages = 2
    /\ selSeen = <<"cards", "nocards">>
    /\ selPage = 2
    /\ selResult = SeleniumCards(1, 1)

\* C30: every run of the orchestrator in which each network call and browser
\* action returns or fails comes to its end, and ends with the records of an
\* accepted backend exported or with all methods failed.
C30_Terminates == <>(pc = "done" /\ outcome \in {"Exported", "AllFailed"})

\* C31: whenever a run ends after a backend's result was accepted, the cleaned
\* products handed to the writers are at least one record: the records main
\* accepted on their number are never all dropped by standardize_products.
C31_ExportNonEmpty ==
    (pc = "done" /\ accepted # "none" /\ outcome = "Exported") =>
        /\ exported # None
        /\ Len(exported[2]) > 0

\* C32: as long as no backend's result has been accepted, and so in every run
\* that ends without one, standardize_products and clean_product_data have
\* not been called and the writers have been handed nothing; such a run logs
\* no completed export.
C32_NoExportWithoutAccept ==
    accepted = "none" =>
        /\ stdInput = None
        /\ exported = None
        /\ outcome # "Exported"
        /\ ~Logged("INFO Scraping completed successfully")

\* All three backends were rejected and the run is over with nothing
\* standardized or written.
C32_Witness ==
    /\ pc = "done"
    /\ accepted = "none"
    /\ calls = Order
    /\ outcome = "AllFailed"
    /\ Logged("ERROR All scraping methods failed")
    /\ exported = None

\* C33: when looking up or clicking a pagination control raises inside
\* _go_to_next_page, the call counts as 'no next page': nothing is clicked, no
\* further page is navigated to or extracted, no exception reaches main, and
\* scrape_products returns the records of the pages extracted so far.
C33_NavErrorIsNoNext ==
    [][(pc = "pw_next" /\ lastNav'.step = "error") =>
          /\ pc' = "main_playwright_check"
          /\ "playwright" \in returned'
          /\ playwright_products' = pwProducts
          /\ lastClick' = "none"
          /\ navigations' = navigations
          /\ extractions' = extractions
          /\ log' = log \o <<"WARNING Error navigating to next page",
                             "INFO No more pages available">>
      ]_vars

\* The click on an enabled next control raised after the first page gave two
\* records: these two are what the backend returned.
C33_Witness ==
    /\ pc = "main_playwright_check"
    /\ navSeen = <<"enabled">>
    /\ lastNav.step = "error"
    /\ "playwright" \in returned
    /\ playwright_products = PlaywrightCards(1, 2)
    /\ extractions = 1

\* The listing element has a title whose text can be read.
Readable(card) == card.title = "text"

\* The records of the readable elements of the pages before page k.
RECURSIVE RecordsBefore(_, _)
RecordsBefore(shown, k) ==
    IF k <= 1 THEN <<>>
    ELSE LET kept == SelectSeq(shown[k - 1].cards, Readable) IN
         RecordsBefore(shown, k - 1)
             \o [i \in 1..Len(kept) |-> selenium_product(kept[i])]

\* The first page that ends the traversal, one past the last if none does.
FirstStop(shown) ==
    IF \A k \in 1..Len(shown) : shown[k].kind = "cards" THEN Len(shown) + 1
    ELSE CHOOSE k \in 1..Len(shown) :
            /\ shown[k].kind # "cards"
            /\ \A j \in 1..(k - 1) : shown[j].kind = "cards"

\* C34: the visible-DOM fallback returns the records of the pages before the
\* first page that fails (or tells not-found, or shows no listing element),
\* and of these pages the record of every listing element whose title can be
\* read, in order: an element whose extraction fails is left out alone.
C34_FailuresLoseNoRecords ==
    fnName = "selenium_fallback" =>
        fnResult = L(RecordsBefore(fnArg, FirstStop(fnArg)))

\* Page 1 shows an element that fails and one that does not, page 2 fails:
\* the record of the second element of page 1 is returned.
C34_Witness ==
    /\ fnName = "selenium_fallback"
    /\ Len(fnArg) = 2
    /\ fnArg[1].kind = "cards"
    /\ Len(fnArg[1].cards) = 2
    /\ fnArg[1].cards[1].title = "stale"
    /\ fnArg[1].cards[2].title = "text"
    /\ fnArg[2].kind = "error"
    /\ fnResult = L(<<selenium_product(fnArg[1].cards[2])>>)

\* C35: clean_name applied to its own result gives that result again, for
\* every input: absent, empty, whitespace only, any other string, a number.
C35_CleanNameIdempotent ==
    fnName = "clean_name_twice" => fnResult = clean_name(fnArg)

============================================================================
